---- MODULE Spec2Model ----
(***************************************************************************)
(* Model of the caption voting application: the vote route (POST and GET   *)
(* /api/vote), the caption listing route (GET /api/captions), the          *)
(* analytics route (GET /api/caption-analytics), the analytics page, the   *)
(* voting widget (VotingButtons), the captions page, the upload routes     *)
(* and the upload page.  The backing store (tables                         *)
(* caption_votes, captions and caption_likes) is state of the model; each  *)
(* handler is split at the awaits on the store where another request can   *)
(* interleave.                                                             *)
(*                                                                         *)
(* Optional values (null / undefined in the source) are modelled as        *)
(* sequences of length at most one: <<>> is null, <<x>> is the value x.    *)
(***************************************************************************)
EXTENDS Integers, Sequences, FiniteSets, TLC

VARIABLES
    votes,      \* table caption_votes: sequence of rows, row i has id i
    req,        \* POST /api/vote requests in flight, one per server slot
    submits,    \* number of POST /api/vote requests received so far
    widget,     \* state of one VotingButtons instance
    captions,   \* table captions: sequence of rows
    likes,      \* table caption_likes: sequence of rows
    upload,     \* state of the upload page and of its upload flow
    page,       \* state of the captions page and of its requests in flight
    analytics,  \* GET /api/caption-analytics request in flight
    out         \* the last response of a read handler (GET routes, pages)

vars == <<votes, req, submits, widget, captions, likes, upload, page, analytics, out>>

----------------------------------------------------------------------------
(* Bounds of the model *)

\* POST /api/vote requests received in one behaviour
MaxSubmits == 3
\* rows of caption_votes drawn for the read handlers
MaxAggVotes == 4
\* rows of captions drawn for the listing
MaxCaps == 2
\* largest limit parameter of a listing request
MaxLimit == 2
\* largest offset parameter of a listing request
MaxOffset == 2

Users == {"u1", "u2"}
Captions == {"c1", "c2"}
Slots == {"r1", "r2"}

\* auth.getUser(): a user id, or "null" when there is no session
Principals == Users \cup {"null"}

None == <<>>
Some(x) == <<x>>

\* vote_value as it can arrive in a request body; <<>> is undefined
VoteValueInputs == {None, Some(-1), Some(0), Some(1), Some(2)}
\* caption_id as it can arrive in a request body
CaptionIdInputs == Captions \cup {"undefined"}

\* request.json(): ok = FALSE is a body request.json() throws on
Bodies ==
    {[ok |-> TRUE, caption_id |-> c, vote_value |-> v] :
        c \in CaptionIdInputs, v \in VoteValueInputs}
    \cup {[ok |-> FALSE, caption_id |-> "undefined", vote_value |-> None]}

\* the outcome of one call to the store
StoreOutcomes == {"ok", "error"}

\* upload flows started on the upload page in one behaviour
MaxFlows == 2

----------------------------------------------------------------------------
(* POST /api/vote *)

NoResponse ==
    [status |-> 0, success |-> FALSE, action |-> "none", vote |-> None,
     previous_vote |-> None, error |-> ""]

ErrorResponse(code, msg) ==
    [status |-> code, success |-> FALSE, action |-> "none", vote |-> None,
     previous_vote |-> None, error |-> msg]

UpdatedResponse(row, previous) ==
    [status |-> 200, success |-> TRUE, action |-> "updated", vote |-> Some(row),
     previous_vote |-> Some(previous), error |-> ""]

CreatedResponse(row) ==
    [status |-> 200, success |-> TRUE, action |-> "created", vote |-> Some(row),
     previous_vote |-> None, error |-> ""]

IdleRequest ==
    [pc |-> "idle", user |-> "null",
     body |-> [ok |-> TRUE, caption_id |-> "undefined", vote_value |-> None],
     existingVote |-> None, lookupError |-> FALSE, resp |-> NoResponse]

\* authError || !user
Unauthenticated(user) == user = "null"

\* !caption_id || vote_value === undefined
MissingFields(body) == body.caption_id = "undefined" \/ body.vote_value = None

ValidVoteValue_NoRangeCheck(v) == v # None

\* [1, -1, 0].includes(vote_value)
ValidVoteValue(v) == v \in {Some(1), Some(-1), Some(0)}

\* the response of the handler before it touches the store, None if it goes on
Rejection(user, body) ==
    IF Unauthenticated(user) THEN Some(ErrorResponse(401, "Authentication required"))
    ELSE IF ~body.ok THEN Some(ErrorResponse(500, "Internal server error"))
    ELSE IF MissingFields(body)
        THEN Some(ErrorResponse(400, "caption_id and vote_value are required"))
    ELSE IF ~ValidVoteValue(body.vote_value)
        THEN Some(ErrorResponse(400, "vote_value must be 1 (upvote), -1 (downvote), or 0 (neutral)"))
    ELSE None

\* .eq('caption_id', c).eq('profile_id', u)
PairRows(rows, c, u) ==
    SelectSeq(rows, LAMBDA v : v.caption_id = c /\ v.profile_id = u)

\* .single(): the row when exactly one row matches, else data is null
Single(rows) == IF Len(rows) = 1 THEN Some(rows[1]) ELSE None

\* .select('id, vote_value')
IdAndValue(row) == [id |-> row.id, vote_value |-> row.vote_value]

\* the handler receives a request: authentication and validation
Receive(r, user, body) ==
    /\ req[r].pc \in {"idle", "done"}
    /\ submits < MaxSubmits
    /\ submits' = submits + 1
    /\ LET rej == Rejection(user, body) IN
       req' = [req EXCEPT ![r] =
                 [pc |-> IF rej = None THEN "lookup" ELSE "done",
                  user |-> user, body |-> body,
                  existingVote |-> None, lookupError |-> FALSE,
                  resp |-> IF rej = None THEN NoResponse ELSE rej[1]]]

\* a request of some client
PostBegin(r, user, body) ==
    /\ Receive(r, user, body)
    /\ UNCHANGED <<votes, widget, captions, likes, upload, page, analytics, out>>

\* const { data: existingVote } = await ...single(): the error is not read
PostLookup(r, outcome) ==
    /\ req[r].pc = "lookup"
    /\ LET found == Single(PairRows(votes, req[r].body.caption_id, req[r].user)) IN
       req' = [req EXCEPT ![r].pc = "write",
                          ![r].lookupError = (outcome = "error"),
                          ![r].existingVote =
                              IF outcome = "error" \/ found = None THEN None
                              ELSE Some(IdAndValue(found[1]))]
    /\ UNCHANGED <<votes, submits, widget, captions, likes, upload, page, analytics, out>>

WritePath_AlwaysInsert(existingVote) == "insert"

\* if (existingVote) ... else ...
WritePath(existingVote) == IF existingVote # None THEN "update" ELSE "insert"

UpdateVote_NoFilter(rows, id, v) ==
    [i \in DOMAIN rows |-> [rows[i] EXCEPT !.vote_value = v]]

\* .update({ vote_value }).eq('id', id)
UpdateVote(rows, id, v) ==
    [i \in DOMAIN rows |->
        IF rows[i].id = id THEN [rows[i] EXCEPT !.vote_value = v] ELSE rows[i]]

\* the row .insert({ caption_id, profile_id: user.id, vote_value }) adds
NewVote(rows, c, u, v) ==
    [id |-> Len(rows) + 1, caption_id |-> c, profile_id |-> u, vote_value |-> v]

InsertVote_IfAbsent(rows, row) ==
    IF \E i \in DOMAIN rows :
          rows[i].caption_id = row.caption_id /\ rows[i].profile_id = row.profile_id
    THEN rows ELSE Append(rows, row)

\* .insert(row): the table has no uniqueness rule that the handler relies on
InsertVote(rows, row) == Append(rows, row)

\* the update or the insert, and the response
PostWrite(r, outcome) ==
    /\ req[r].pc = "write"
    /\ LET v == req[r].body.vote_value[1]
           c == req[r].body.caption_id
           u == req[r].user
       IN IF WritePath(req[r].existingVote) = "update"
          THEN LET e == req[r].existingVote[1]
                   rows == UpdateVote(votes, e.id, v)
               IN IF outcome = "error"
                  THEN /\ votes' = votes
                       /\ req' = [req EXCEPT ![r].pc = "done",
                                    ![r].resp = ErrorResponse(500, "Failed to update vote")]
                  ELSE /\ votes' = rows
                       /\ req' = [req EXCEPT ![r].pc = "done",
                                    ![r].resp = UpdatedResponse(rows[e.id], e.vote_value)]
          ELSE LET row == NewVote(votes, c, u, v)
               IN IF outcome = "error"
                  THEN /\ votes' = votes
                       /\ req' = [req EXCEPT ![r].pc = "done",
                                    ![r].resp = ErrorResponse(500, "Failed to create vote")]
                  ELSE /\ votes' = InsertVote(votes, row)
                       /\ req' = [req EXCEPT ![r].pc = "done",
                                    ![r].resp = CreatedResponse(row)]
    /\ UNCHANGED <<submits, widget, captions, likes, upload, page, analytics, out>>

----------------------------------------------------------------------------
(* Vote aggregation: the three places that bucket vote rows by sign *)

VoteValues == {-1, 0, 1}

Min(a, b) == IF a <= b THEN a ELSE b

\* array.filter(test).length
CountWhere(rows, Test(_)) == Len(SelectSeq(rows, Test))

IsUpvote_IncludesZero(v) == v.vote_value >= 0

\* v => v.vote_value > 0
IsUpvote(v) == v.vote_value > 0

\* v => v.vote_value < 0
IsDownvote(v) == v.vote_value < 0

\* v => v.vote_value === 0
IsNeutral(v) == v.vote_value = 0

\* captions route: voteCounts of one caption from allVotes
ListingVoteCounts(allVotes, captionId) ==
    LET captionVotes == SelectSeq(allVotes, LAMBDA v : v.caption_id = captionId) IN
    [upvotes |-> CountWhere(captionVotes, IsUpvote),
     downvotes |-> CountWhere(captionVotes, IsDownvote),
     neutrals |-> CountWhere(captionVotes, IsNeutral)]

\* vote route GET: voteCounts from the rows of the caption; votes is null
\* (None here) when the query failed, and each count is then 0
VoteRouteVoteCounts(rowsOrNull) ==
    IF rowsOrNull = None
    THEN [upvotes |-> 0, downvotes |-> 0, neutrals |-> 0]
    ELSE [upvotes |-> CountWhere(rowsOrNull[1], IsUpvote),
          downvotes |-> CountWhere(rowsOrNull[1], IsDownvote),
          neutrals |-> CountWhere(rowsOrNull[1], IsNeutral)]

\* analytics route: voteStats over all rows; voteAnalysis is null on error
AnalyticsVoteStats(rowsOrNull) ==
    IF rowsOrNull = None
    THEN [upvotes |-> 0, downvotes |-> 0, neutrals |-> 0]
    ELSE [upvotes |-> CountWhere(rowsOrNull[1], IsUpvote),
          downvotes |-> CountWhere(rowsOrNull[1], IsDownvote),
          neutrals |-> CountWhere(rowsOrNull[1], IsNeutral)]

TotalVotes_NoNeutrals(voteCounts) == voteCounts.upvotes + voteCounts.downvotes

\* total_votes: upvotes + downvotes + neutrals
TotalVotes(voteCounts) == voteCounts.upvotes + voteCounts.downvotes + voteCounts.neutrals

----------------------------------------------------------------------------
(* Upvote ratios.  A JavaScript number is [kind, value]: kind "number" with
   the value, or kind "NaN" / "Infinity" for the result of a division by 0. *)

Num(n) == [kind |-> "number", value |-> n]
NaN == [kind |-> "NaN", value |-> 0]
Infinity == [kind |-> "Infinity", value |-> 0]
Omitted == [kind |-> "omitted", value |-> 0]

\* a / b rounded to the nearest integer, half up (a >= 0, b > 0)
RoundDiv(a, b) == (2 * a + b) \div (2 * b)

\* (a / b * 100) in units of 1/scale percent, as JavaScript divides
JsPercent(a, b, scale) ==
    IF b = 0 THEN (IF a = 0 THEN NaN ELSE Infinity)
    ELSE Num(RoundDiv(100 * scale * a, b))

\* widget: {upvotes + downvotes > 0 && Math.round(upvotes / (upvotes + downvotes) * 100)}
WidgetPercentUp(voteCounts) ==
    IF voteCounts.upvotes + voteCounts.downvotes > 0
    THEN JsPercent(voteCounts.upvotes, voteCounts.upvotes + voteCounts.downvotes, 1)
    ELSE Omitted

\* analytics page: upvoteRate, in tenths of a percent; '0' when there is no vote
PageUpvoteRate(voteStats) ==
    IF voteStats.upvotes + voteStats.downvotes > 0
    THEN JsPercent(voteStats.upvotes, voteStats.upvotes + voteStats.downvotes, 10)
    ELSE Num(0)

\* analytics route, third insight: ((upvotes / (upvotes + downvotes)) * 100).toFixed(1)
InsightUpvoteRatio(voteStats) ==
    JsPercent(voteStats.upvotes, voteStats.upvotes + voteStats.downvotes, 10)

----------------------------------------------------------------------------
(* GET /api/vote *)

\* the whole handler; the two store reads are given their outcomes
GetVote(caption_id, user, votesOutcome, userVoteOutcome) ==
    /\ out' =
        IF caption_id = "undefined"
        THEN [kind |-> "vote", status |-> 400, success |-> FALSE,
              request |-> [caption_id |-> caption_id, user |-> user,
                           votesOutcome |-> votesOutcome,
                           userVoteOutcome |-> userVoteOutcome],
              caption_id |-> caption_id,
              vote_counts |-> [upvotes |-> 0, downvotes |-> 0, neutrals |-> 0],
              user_vote |-> None, total_votes |-> 0]
        ELSE LET rows == IF votesOutcome = "error" THEN None
                         ELSE Some(SelectSeq(votes, LAMBDA v : v.caption_id = caption_id))
                 voteCounts == VoteRouteVoteCounts(rows)
                 userVoteData == IF user = "null" \/ userVoteOutcome = "error" THEN None
                                 ELSE Single(PairRows(votes, caption_id, user))
                 \* userVoteData?.vote_value || null: 0 is falsy
                 userVote == IF userVoteData = None \/ userVoteData[1].vote_value = 0
                             THEN None ELSE Some(userVoteData[1].vote_value)
             IN [kind |-> "vote", status |-> 200, success |-> TRUE,
                 request |-> [caption_id |-> caption_id, user |-> user,
                              votesOutcome |-> votesOutcome,
                              userVoteOutcome |-> userVoteOutcome],
                 caption_id |-> caption_id,
                 vote_counts |-> voteCounts,
                 user_vote |-> userVote,
                 total_votes |-> TotalVotes(voteCounts)]
    /\ UNCHANGED <<votes, req, submits, widget, captions, likes, upload, page, analytics>>

----------------------------------------------------------------------------
(* GET /api/captions *)

\* .limit(1000) of the random mode
RandomFetchLimit == 1000

SortInputs == {"newest", "oldest", "most_liked", "random", "most_voted"}

\* which store call of the listing fails, if any
ListingFaults == {"none", "captions", "votes", "userVotes", "count"}

\* the switch on sortBy: the order column, the direction, the random mode
OrderBy(sortBy) == IF sortBy = "most_liked" THEN "like_count" ELSE "created_datetime_utc"
Ascending(sortBy) == sortBy = "oldest"
RandomOrder(sortBy) == sortBy = "random"

\* .not('content', 'is', null).neq('content', '')
HasContent(row) == row.content # None /\ row.content # Some("")

WithContent(rows) == SelectSeq(rows, HasContent)

\* the listing's tables hold no null like_count
OrderKey(row, orderBy) ==
    IF orderBy = "like_count" THEN row.like_count[1] ELSE row.created_datetime_utc

\* the rows of a query in an order the store may return for .order(column):
\* rows with equal keys come in any order
IsOrdered(rows, orderBy, ascending) ==
    {i \in 1..(Len(rows) - 1) :
        IF ascending
        THEN OrderKey(rows[i], orderBy) > OrderKey(rows[i + 1], orderBy)
        ELSE OrderKey(rows[i], orderBy) < OrderKey(rows[i + 1], orderBy)} = {}

Rearrangements(rows) ==
    LET n == Len(rows)
        perms == {p \in [1..n -> 1..n] : \A i, j \in 1..n : p[i] = p[j] => i = j}
    IN {[i \in 1..n |-> rows[p[i]]] : p \in perms}

\* q is the rows of the query in an order the store may return
IsStoreOrder(q, rows, orderBy, ascending) ==
    /\ Len(q) = Len(rows)
    /\ {q[i] : i \in DOMAIN q} = {rows[i] : i \in DOMAIN rows}
    /\ IsOrdered(q, orderBy, ascending)

Range_OffByOne(rows, from, to) ==
    IF from + 1 > Len(rows) THEN <<>> ELSE SubSeq(rows, from + 2, Min(to + 2, Len(rows)))

\* .range(from, to): rows from..to of the result, counted from 0, both included
Range(rows, from, to) ==
    IF from + 1 > Len(rows) THEN <<>> ELSE SubSeq(rows, from + 1, Min(to + 1, Len(rows)))

Limit_Unbounded(rows, n) == rows

\* .limit(n)
Limit(rows, n) == SubSeq(rows, 1, Min(n, Len(rows)))

\* array.slice(start, end)
Slice(rows, start, end) ==
    IF start + 1 > Len(rows) THEN <<>> ELSE SubSeq(rows, start + 1, Min(end, Len(rows)))

\* userVotes.find(v => v.caption_id === caption.id)?.vote_value ?? null
ListingUserVote(userVotes, captionId) ==
    LET mine == SelectSeq(userVotes, LAMBDA v : v.caption_id = captionId) IN
    IF Len(mine) = 0 THEN None ELSE Some(mine[1].vote_value)

\* the map over captions: each caption with its vote_counts, user_vote, total_votes
Enriched(caption, allVotes, userVotes) ==
    LET voteCounts == ListingVoteCounts(allVotes, caption.id) IN
    [id |-> caption.id, content |-> caption.content, like_count |-> caption.like_count,
     created_datetime_utc |-> caption.created_datetime_utc,
     vote_counts |-> voteCounts,
     user_vote |-> ListingUserVote(userVotes, caption.id),
     total_votes |-> TotalVotes(voteCounts)]

Swap_Overwrite(a, i, j) == [a EXCEPT ![i] = a[j]]

\* [a[i], a[j]] = [a[j], a[i]]
Swap(a, i, j) == [a EXCEPT ![i] = a[j], ![j] = a[i]]

\* the choices of j of one shuffle of n elements: js[i] in 0..i for i = 1..n-1
ShuffleChoices(n) == {js \in [1..(n - 1) -> 0..(n - 1)] : \A i \in 1..(n - 1) : js[i] <= i}

\* the loop's iterations i = hi, hi - 1, ..., lo, the upper half of them
\* first; indexes count from 0.  The test on upper has it evaluated before the
\* lower iterations start (an array the loop runs on is never empty)
RECURSIVE ShuffleSteps(_, _, _, _)
ShuffleSteps(a, hi, lo, js) ==
    IF hi < lo THEN a
    ELSE IF hi = lo THEN Swap(a, hi + 1, js[hi] + 1)
    ELSE LET mid == (hi + lo) \div 2
             upper == ShuffleSteps(a, hi, mid + 1, js)
         IN IF Len(upper) = 0 THEN upper ELSE ShuffleSteps(upper, mid, lo, js)

\* for (i = length - 1; i > 0; i--) swap a[i], a[j]
ShuffleFrom(a, i, js) == ShuffleSteps(a, i, 1, js)

Shuffle(a, js) == ShuffleFrom(a, Len(a) - 1, js)

ListingFailure(request) ==
    [kind |-> "captions", status |-> 500, success |-> FALSE, request |-> request,
     captions |-> <<>>,
     pagination |-> [total |-> 0, limit |-> 0, offset |-> 0, hasMore |-> FALSE]]

\* the whole handler.  ordered is the order the store returns the captions
\* with content in for the handler's .order(); js are the shuffle's choices
ListCaptions(sortBy, limit, offset, user, fault, ordered, js) ==
    /\ IsStoreOrder(ordered, WithContent(captions),
                    IF RandomOrder(sortBy) THEN "created_datetime_utc" ELSE OrderBy(sortBy),
                    IF RandomOrder(sortBy) THEN FALSE ELSE Ascending(sortBy))
    /\ LET fetched == IF RandomOrder(sortBy)
                      THEN Limit(ordered, RandomFetchLimit)
                      ELSE Range(ordered, offset, offset + limit - 1)
           captionIds == {fetched[i].id : i \in DOMAIN fetched}
           allVotes == IF fault = "votes" THEN <<>>
                       ELSE SelectSeq(votes, LAMBDA v : v.caption_id \in captionIds)
           userVotes == IF user = "null" \/ captionIds = {} \/ fault = "userVotes" THEN <<>>
                        ELSE SelectSeq(votes, LAMBDA v :
                                 v.profile_id = user /\ v.caption_id \in captionIds)
           captionsWithVotes == [i \in DOMAIN fetched |-> Enriched(fetched[i], allVotes, userVotes)]
           shuffled == Shuffle(captionsWithVotes, js)
           totalCount == IF fault = "count" THEN 0 ELSE Len(WithContent(captions))
           request == [sort |-> sortBy, limit |-> limit, offset |-> offset,
                       user |-> user, fault |-> fault, js |-> js]
       IN out' =
            IF fault = "captions" THEN ListingFailure(request)
            ELSE IF RandomOrder(sortBy)
            THEN [kind |-> "captions", status |-> 200, success |-> TRUE, request |-> request,
                  captions |-> Slice(shuffled, offset, offset + limit),
                  pagination |-> [total |-> Len(shuffled), limit |-> limit, offset |-> offset,
                                  hasMore |-> (offset + limit) < Len(shuffled)]]
            ELSE [kind |-> "captions", status |-> 200, success |-> TRUE, request |-> request,
                  captions |-> captionsWithVotes,
                  pagination |-> [total |-> totalCount, limit |-> limit, offset |-> offset,
                                  hasMore |-> (offset + limit) < totalCount]]
    /\ UNCHANGED <<votes, req, submits, widget, captions, likes, upload, page, analytics>>

----------------------------------------------------------------------------
(* GET /api/caption-analytics and the analytics page *)

\* .limit(1000) of the humor flavor query
FlavorFetchLimit == 1000

\* humorFlavorStats.slice(0, 10)
ReportedFlavors == 10

\* which store call of the analytics request fails, if any, besides the vote
\* breakdown read
AnalyticsFaults == {"none", "captionsCount", "likesCount", "votesCount", "flavors", "engagement"}

\* the JavaScript number a / b for integers a >= 0 and b > 0, kept exact
Quotient(a, b) == [num |-> a, den |-> b]

\* q1 < q2
QuotientLess(q1, q2) == q1.num * q2.den < q2.num * q1.den

\* count || d for a count that is null or a number
CountOr(count, d) == IF count = None \/ count = Some(0) THEN d ELSE count[1]

\* caption.like_count || 0
LikesOf(caption) == IF caption.like_count = None THEN 0 ELSE caption.like_count[1]

\* .not('humor_flavor_id', 'is', null).limit(1000), in the order of the table
WithFlavor(rows) ==
    Limit(SelectSeq(rows, LAMBDA c : c.humor_flavor_id # None), FlavorFetchLimit)

\* the forEach over captionsWithFlavor: flavorStats after the first n
\* captions, its entries in the order they were created in
RECURSIVE FlavorStats(_, _)
FlavorStats(rows, n) ==
    IF n = 0 THEN <<>>
    ELSE LET stats == FlavorStats(rows, n - 1)
             caption == rows[n]
             flavorId == caption.humor_flavor_id[1]
             at == {k \in DOMAIN stats : stats[k].id = flavorId}
             created == IF at = {}
                        THEN Append(stats, [id |-> flavorId, captionCount |-> 0,
                                            totalLikes |-> 0])
                        ELSE stats
             k == CHOOSE k \in DOMAIN created : created[k].id = flavorId
         IN [created EXCEPT ![k].captionCount = @ + 1,
                            ![k].totalLikes = @ + LikesOf(caption)]

\* avgLikes: flavor.captionCount > 0 ? flavor.totalLikes / flavor.captionCount : 0
WithAvgLikes(flavor) ==
    [id |-> flavor.id, captionCount |-> flavor.captionCount,
     totalLikes |-> flavor.totalLikes,
     avgLikes |-> IF flavor.captionCount > 0
                  THEN Quotient(flavor.totalLikes, flavor.captionCount)
                  ELSE Quotient(0, 1)]

SortedByAvgLikes_Unsorted(stats, n) == SubSeq(stats, 1, n)

\* .sort((a, b) => b.avgLikes - a.avgLikes) of the first n entries: the sort
\* is stable, entries of equal avgLikes keep their order
RECURSIVE SortedByAvgLikes(_, _)
SortedByAvgLikes(stats, n) ==
    IF n = 0 THEN <<>>
    ELSE LET sorted == SortedByAvgLikes(stats, n - 1)
             x == stats[n]
             k == Cardinality({m \in DOMAIN sorted :
                                  ~QuotientLess(sorted[m].avgLikes, x.avgLikes)})
         IN SubSeq(sorted, 1, k) \o <<x>> \o SubSeq(sorted, k + 1, Len(sorted))

\* lines 47-82: the statistics of the flavors of the fetched captions
HumorFlavorStats(captionsWithFlavor) ==
    IF captionsWithFlavor = None THEN <<>>
    ELSE LET stats == FlavorStats(captionsWithFlavor[1], Len(captionsWithFlavor[1]))
             withAvg == [k \in DOMAIN stats |-> WithAvgLikes(stats[k])]
         IN SortedByAvgLikes(withAvg, Len(withAvg))

HasLikes_NotNull(caption) == caption.like_count # None

\* .gt('like_count', 0)
HasLikes(caption) == caption.like_count # None /\ caption.like_count[1] > 0

\* reduce((sum, c) => sum + (c.like_count || 0), 0) over the first n rows
RECURSIVE SumLikes(_, _)
SumLikes(rows, n) == IF n = 0 THEN 0 ELSE SumLikes(rows, n - 1) + LikesOf(rows[n])

\* Math.max(...rows.map(c => c.like_count || 0)) of a non-empty array
MaxLikesOf(rows) ==
    LET all == {LikesOf(rows[k]) : k \in DOMAIN rows} IN
    CHOOSE m \in all : \A x \in all : x <= m

\* (likesCount.count || 0) / (captionsCount.count || 1) * 100
LikeRate(likesCount, captionsCount) ==
    Quotient(CountOr(likesCount, 0) * 100, CountOr(captionsCount, 1))

\* lines 104-113
EngagementMetrics(captionsWithEngagement, likesCount, captionsCount) ==
    LET rows == IF captionsWithEngagement = None THEN <<>> ELSE captionsWithEngagement[1] IN
    [captionsWithLikes |-> Len(rows),
     avgLikesPerCaption |-> IF Len(rows) > 0
                            THEN Quotient(SumLikes(rows, Len(rows)), Len(rows))
                            ELSE Quotient(0, 1),
     maxLikes |-> IF Len(rows) > 0 THEN MaxLikesOf(rows) ELSE 0,
     likeRate |-> LikeRate(likesCount, captionsCount)]

\* the response, and the page's upvote rate computed from it, from what the
\* handler's store calls returned: the three counts, the rows of the vote
\* breakdown read (given its outcome), and the captions reads; fault is the
\* store call other than the breakdown read that fails, if any
AnalyticsResponse(captionsCount, likesCount, votesCount, voteRows, votesOutcome, fault) ==
    LET captionsWithFlavor == IF fault = "flavors" THEN None
                              ELSE Some(WithFlavor(captions))
        humorFlavorStats == HumorFlavorStats(captionsWithFlavor)
        voteAnalysis == IF votesOutcome = "error" THEN None ELSE Some(voteRows)
        voteStats == AnalyticsVoteStats(voteAnalysis)
        captionsWithEngagement == IF fault = "engagement" THEN None
                                  ELSE Some(SelectSeq(captions, HasLikes))
    IN [kind |-> "analytics", status |-> 200, success |-> TRUE,
        request |-> [votesOutcome |-> votesOutcome, fault |-> fault],
        totalCaptions |-> CountOr(captionsCount, 0),
        totalLikes |-> CountOr(likesCount, 0),
        totalVotes |-> CountOr(votesCount, 0),
        humorFlavorStats |-> humorFlavorStats,
        reportedFlavorStats |-> Slice(humorFlavorStats, 0, ReportedFlavors),
        voteStats |-> voteStats,
        engagementMetrics |-> EngagementMetrics(captionsWithEngagement,
                                                likesCount, captionsCount),
        insightVotesCast |-> voteStats.upvotes + voteStats.downvotes,
        insightUpvoteRatio |-> InsightUpvoteRatio(voteStats),
        pageUpvoteRate |-> PageUpvoteRate(voteStats)]

\* the three count queries of Promise.all
CaptionsCount(fault) == IF fault = "captionsCount" THEN None ELSE Some(Len(captions))
LikesCount(fault) == IF fault = "likesCount" THEN None ELSE Some(Len(likes))
VotesCount(fault) == IF fault = "votesCount" THEN None ELSE Some(Len(votes))

\* the whole handler served with no other request in between
AnalyticsLoad(votesOutcome, fault) ==
    /\ out' = AnalyticsResponse(CaptionsCount(fault), LikesCount(fault), VotesCount(fault),
                                votes, votesOutcome, fault)
    /\ UNCHANGED <<votes, req, submits, widget, captions, likes, upload, page, analytics>>

\* the handler split at the await on the count queries: a request in flight
\* holds the counts it has read
NoAnalytics ==
    [pc |-> "idle", captionsCount |-> None, likesCount |-> None, votesCount |-> None,
     fault |-> "none"]

\* the handler up to the await on Promise.all of the count queries
AnalyticsCounts(fault) ==
    /\ analytics.pc = "idle"
    /\ analytics' = [pc |-> "counted", captionsCount |-> CaptionsCount(fault),
                     likesCount |-> LikesCount(fault), votesCount |-> VotesCount(fault),
                     fault |-> fault]
    /\ UNCHANGED <<votes, req, submits, widget, captions, likes, upload, page, out>>

\* the rest of the handler: the later reads, the vote breakdown read among
\* them, see the store as it is now
AnalyticsRest(votesOutcome) ==
    /\ analytics.pc = "counted"
    /\ out' = AnalyticsResponse(analytics.captionsCount, analytics.likesCount,
                                analytics.votesCount, votes, votesOutcome, analytics.fault)
    /\ analytics' = NoAnalytics
    /\ UNCHANGED <<votes, req, submits, widget, captions, likes, upload, page>>

----------------------------------------------------------------------------
(* VotingButtons: one widget instance, its requests served in slot r1 *)

WidgetSlot == "r1"

\* onClick={() => handleVote(1)} and onClick={() => handleVote(-1)}
ButtonValues == {1, -1}

\* if (currentUserVote > 0) upvotes-- else if (< 0) downvotes-- else neutrals--
Decrement(counts, v) ==
    IF v > 0 THEN [counts EXCEPT !.upvotes = @ - 1]
    ELSE IF v < 0 THEN [counts EXCEPT !.downvotes = @ - 1]
    ELSE [counts EXCEPT !.neutrals = @ - 1]

\* if (voteValue > 0) upvotes++ else if (< 0) downvotes++ else neutrals++
Increment(counts, v) ==
    IF v > 0 THEN [counts EXCEPT !.upvotes = @ + 1]
    ELSE IF v < 0 THEN [counts EXCEPT !.downvotes = @ + 1]
    ELSE [counts EXCEPT !.neutrals = @ + 1]

\* the local update after a successful submission
NewVoteCounts(counts, currentUserVote, voteValue) ==
    Increment(IF currentUserVote # None THEN Decrement(counts, currentUserVote[1]) ELSE counts,
              voteValue)

\* the widget as the captions page mounts it for a caption of the listing
\* response: useState(initialVoteCounts), useState(userVote), useState(false)
Mounted(captionId, user) ==
    LET userVotes == IF user = "null" THEN <<>>
                     ELSE SelectSeq(votes, LAMBDA v : v.profile_id = user)
        caption == Enriched([id |-> captionId, content |-> Some("lol"), like_count |-> Some(0),
                             created_datetime_utc |-> 1], votes, userVotes)
    IN [captionId |-> captionId, user |-> user, isLoggedIn |-> user # "null",
        voteCounts |-> caption.vote_counts,
        currentUserVote |-> caption.user_vote,
        isVoting |-> FALSE, voteValue |-> None, notice |-> "none", onVoteChange |-> 0]

Finally_Skipped(w) == w

\* finally { setIsVoting(false) }
Finally(w) == [w EXCEPT !.isVoting = FALSE]

Alert_AndUpdate(w, message) ==
    [w EXCEPT !.notice = message, !.currentUserVote = w.voteValue,
              !.onVoteChange = @ + 1]

\* alert(message)
Alert(w, message) == [w EXCEPT !.notice = message]

\* handleVote up to the await on fetch; session is the principal the server
\* finds for the request's cookies
HandleVote(voteValue, session) ==
    IF ~widget.isLoggedIn
    THEN /\ widget' = Alert(widget, "Please log in to vote on captions")
         /\ UNCHANGED <<votes, req, submits, captions, likes, upload, page, analytics, out>>
    ELSE IF widget.isVoting
    THEN UNCHANGED vars
    ELSE /\ widget' = [widget EXCEPT !.isVoting = TRUE, !.voteValue = Some(voteValue),
                                     !.notice = "none"]
         /\ Receive(WidgetSlot, session,
                    [ok |-> TRUE, caption_id |-> widget.captionId,
                     vote_value |-> Some(voteValue)])
         /\ UNCHANGED <<votes, captions, likes, upload, page, analytics, out>>

\* handleVote from the response on; delivery is "thrown" when fetch or
\* response.json() throws.  onVoteChange counts the calls of the callback
HandleResponse(delivery) ==
    /\ widget.isVoting
    /\ req[WidgetSlot].pc = "done"
    /\ LET result == req[WidgetSlot].resp
           voteValue == widget.voteValue[1]
       IN widget' =
            IF delivery = "thrown"
            THEN Finally(Alert(widget, "Failed to submit vote. Please try again."))
            ELSE IF result.success
            THEN Finally([widget EXCEPT
                            !.voteCounts = NewVoteCounts(widget.voteCounts,
                                                         widget.currentUserVote, voteValue),
                            !.currentUserVote = Some(voteValue),
                            !.onVoteChange = @ + 1])
            ELSE Finally(Alert(widget, result.error))
    /\ UNCHANGED <<votes, req, submits, captions, likes, upload, page, analytics, out>>

----------------------------------------------------------------------------
(* The upload routes: POST /api/upload/presigned-url, register-image and
   generate-captions.  Each authenticates, reads one field of the body,
   takes the token of the authorization header and forwards to the
   captioning API *)

ProxyRoutes == {"presigned-url", "register-image", "generate-captions"}

\* allowedTypes of the presigned-url route and of the upload page
AllowedTypes ==
    {"image/jpeg", "image/jpg", "image/png", "image/webp", "image/gif", "image/heic"}

\* the field a route reads from the body (contentType, imageUrl, imageId);
\* <<>> is undefined
ProxyFieldInputs == {None, Some("text/plain"), Some("image/png")}

\* a request body: ok is FALSE when request.json() throws
ProxyBodies ==
    {[ok |-> TRUE, field |-> f] : f \in ProxyFieldInputs}
    \cup {[ok |-> FALSE, field |-> None]}

\* what the fetch of the captioning API does: it throws, or it answers with a
\* status and a body that parses as JSON or not, carrying the fields the
\* route copies or not
UpstreamStatuses == {200, 400, 404, 500, 503}

UpstreamOutcomes ==
    {[kind |-> "throws", status |-> 0, json |-> FALSE, fields |-> FALSE]}
    \cup {u \in [kind : {"response"}, status : UpstreamStatuses, json : BOOLEAN,
                  fields : BOOLEAN] : u.fields => u.json}

\* response.ok: the status is in the range 200-299
Ok_Always(status) == TRUE

Ok(status) == status >= 200 /\ status <= 299

\* !contentType || !allowedTypes.includes(contentType); !imageUrl; !imageId
InvalidField(route, field) ==
    IF route = "presigned-url"
    THEN field = None \/ field[1] \notin AllowedTypes
    ELSE field = None

FieldError(route) ==
    CASE route = "presigned-url" -> "Invalid content type"
      [] route = "register-image" -> "Image URL is required"
      [] route = "generate-captions" -> "Image ID is required"

\* a response of a route: success is the success member of the body (<<>>
\* when the body has none), fields tells whether the body carries the
\* upstream's fields
ProxyFailure(status, error) ==
    [status |-> status, success |-> Some(FALSE), error |-> error, fields |-> FALSE]

\* presigned-url and register-image wrap the upstream's fields in
\* {success: true, ...}; generate-captions returns the upstream's body as is
ProxySuccess(route, upstream) ==
    [status |-> 200,
     success |-> IF route = "generate-captions" THEN None ELSE Some(TRUE),
     error |-> "none", fields |-> upstream.fields]

ProxyResponse(route, user, body, token, upstream) ==
    IF Unauthenticated(user) THEN ProxyFailure(401, "Authentication required")
    ELSE IF ~body.ok THEN ProxyFailure(500, "Internal server error")
    ELSE IF InvalidField(route, body.field) THEN ProxyFailure(400, FieldError(route))
    ELSE IF ~token THEN ProxyFailure(401, "Authorization token required")
    ELSE IF upstream.kind = "throws" THEN ProxyFailure(500, "Internal server error")
    ELSE IF ~Ok(upstream.status)
         THEN ProxyFailure(upstream.status, "API error: " \o ToString(upstream.status))
    ELSE IF ~upstream.json THEN ProxyFailure(500, "Internal server error")
    ELSE ProxySuccess(route, upstream)

\* one request to an upload route, served to its response
ProxyCall(route, user, body, token, upstream) ==
    /\ out' = [kind |-> "proxy",
               request |-> [route |-> route, user |-> user, body |-> body,
                            token |-> token, upstream |-> upstream],
               response |-> ProxyResponse(route, user, body, token, upstream)]
    /\ UNCHANGED <<votes, req, submits, widget, captions, likes, upload, page, analytics>>

----------------------------------------------------------------------------
(* The upload page: file selection and the upload flow
   uploadAndGenerateCaptions, split at its awaits.  calls is the sequence of
   the external calls the flow has issued, results the status each has
   returned *)

\* the type of the file chosen in the file input; <<>> when none was chosen
FileTypeInputs == {None, Some("image/png"), Some("text/plain")}

UploadCalls == <<"presigned-url", "put", "register-image", "generate-captions">>

\* an upload state {step, progress, error} of the page that runs no flow
NoUpload ==
    [file |-> None, user |-> "null", step |-> "idle", progress |-> 0, error |-> "none",
     pc |-> "idle", fields |-> FALSE, calls |-> <<>>, results |-> <<>>, flows |-> 0]

\* the file input and the two buttons are disabled while a flow runs
ControlsDisabled == upload.step = "uploading" \/ upload.step = "generating"

\* handleFileSelect
HandleFileSelect(type) ==
    /\ ~ControlsDisabled
    /\ IF type = None
       THEN UNCHANGED upload
       ELSE IF type[1] \notin AllowedTypes
       THEN upload' = [upload EXCEPT !.step = "error", !.progress = 0,
                          !.error = "Please select a valid image file"]
       ELSE upload' = [upload EXCEPT !.file = type, !.step = "idle", !.progress = 0,
                          !.error = "none"]
    /\ UNCHANGED <<votes, req, submits, widget, captions, likes, page, analytics, out>>

\* resetUpload
ResetUpload ==
    /\ ~ControlsDisabled
    /\ upload' = [upload EXCEPT !.file = None, !.step = "idle", !.progress = 0,
                     !.error = "none"]
    /\ UNCHANGED <<votes, req, submits, widget, captions, likes, page, analytics, out>>

\* the status a call returned; 0 when its fetch threw
Returned(thrown, status) == IF thrown THEN 0 ELSE status

\* the catch block of the flow; results is the statuses the flow's calls have
\* returned
UploadFailed(message, returned) ==
    [upload EXCEPT !.step = "error", !.progress = 0, !.error = message, !.pc = "idle",
        !.results = @ \o returned]

\* a call of the flow went through: the next state and the next call
UploadAdvanced(step, progress, pc, status) ==
    [upload EXCEPT !.step = step, !.progress = progress, !.error = "none", !.pc = pc,
        !.results = Append(@, status),
        !.calls = IF pc = "idle" THEN @ ELSE Append(@, pc)]

\* the click on the upload button up to the first await (getSession)
UploadStart ==
    /\ upload.file # None
    /\ ~ControlsDisabled
    /\ upload.flows < MaxFlows
    /\ IF Unauthenticated(upload.user)
       THEN UNCHANGED upload
       ELSE upload' = [upload EXCEPT !.step = "uploading", !.progress = 10,
                          !.error = "none", !.pc = "session", !.calls = <<>>,
                          !.results = <<>>, !.flows = @ + 1]
    /\ UNCHANGED <<votes, req, submits, widget, captions, likes, page, analytics, out>>

\* getSession returns: without an access token the flow throws, with one it
\* sends the presigned-url request
UploadSession(token) ==
    /\ upload.pc = "session"
    /\ upload' = IF ~token
                 THEN UploadFailed("No authentication token available", <<>>)
                 ELSE [upload EXCEPT !.pc = "presigned-url",
                          !.calls = Append(@, "presigned-url")]
    /\ UNCHANGED <<votes, req, submits, widget, captions, likes, page, analytics, out>>

\* what a fetch of the page delivers: it throws, or it returns the response
\* the route gives to the page's request (the server sees the page's user or
\* no session), whatever the captioning API does
Deliveries(route, field) ==
    {[thrown |-> TRUE, response |-> ProxyFailure(0, "none")]}
    \cup {[thrown |-> FALSE,
           response |-> ProxyResponse(route, user, [ok |-> TRUE, field |-> field], TRUE, upstream)] :
            user \in {upload.user, "null"}, upstream \in UpstreamOutcomes}

\* step 1 returns; on success the image is PUT to the presigned URL
UploadPresigned(delivery) ==
    /\ upload.pc = "presigned-url"
    /\ upload' = IF delivery.thrown \/ ~Ok(delivery.response.status)
                 THEN UploadFailed("Failed to get upload URL",
                                   <<Returned(delivery.thrown, delivery.response.status)>>)
                 ELSE [UploadAdvanced("uploading", 30, "put", delivery.response.status)
                          EXCEPT !.fields = delivery.response.fields]
    /\ UNCHANGED <<votes, req, submits, widget, captions, likes, page, analytics, out>>

\* step 2 returns: the PUT throws or answers with a status
UploadPut(thrown, status) ==
    /\ upload.pc = "put"
    /\ upload' = IF thrown \/ ~Ok(status)
                 THEN UploadFailed("Failed to upload image", <<Returned(thrown, status)>>)
                 ELSE UploadAdvanced("uploading", 50, "register-image", status)
    /\ UNCHANGED <<votes, req, submits, widget, captions, likes, page, analytics, out>>

\* the cdnUrl or imageId the page took from the previous response
Forwarded == IF upload.fields THEN Some("forwarded") ELSE None

\* step 3 returns
UploadRegister(delivery) ==
    /\ upload.pc = "register-image"
    /\ upload' = IF delivery.thrown \/ ~Ok(delivery.response.status)
                 THEN UploadFailed("Failed to register image",
                                   <<Returned(delivery.thrown, delivery.response.status)>>)
                 ELSE [UploadAdvanced("generating", 70, "generate-captions", delivery.response.status)
                          EXCEPT !.fields = delivery.response.fields]
    /\ UNCHANGED <<votes, req, submits, widget, captions, likes, page, analytics, out>>

\* step 4 returns
UploadGenerate(delivery) ==
    /\ upload.pc = "generate-captions"
    /\ upload' = IF delivery.thrown \/ ~Ok(delivery.response.status)
                 THEN UploadFailed("Failed to generate captions",
                                   <<Returned(delivery.thrown, delivery.response.status)>>)
                 ELSE UploadAdvanced("complete", 100, "idle", delivery.response.status)
    /\ UNCHANGED <<votes, req, submits, widget, captions, likes, page, analytics, out>>

----------------------------------------------------------------------------
(* The captions page: the list it displays, the sort buttons and the
   load-more button.  A handler keeps the captions and the sortBy of the
   render it was created in; a request in flight carries what its handler
   will use when the response arrives.  The page's list is kept as caption
   ids *)

\* limit=10 of the page's requests
PageLimit == 10

\* the sort buttons of the page
PageSorts == {"newest", "oldest", "most_liked"}

\* what a fetch of the page delivers: a success response, a {success: false}
\* response, or fetch or response.json() throws
PageDeliveries == {"delivered", "failure", "thrown"}

\* the place of row i in the result of .order(column): the table's keys differ
PlaceOf(rows, i, orderBy, ascending) ==
    Cardinality({j \in DOMAIN rows :
        IF ascending
        THEN OrderKey(rows[j], orderBy) < OrderKey(rows[i], orderBy)
        ELSE OrderKey(rows[j], orderBy) > OrderKey(rows[i], orderBy)}) + 1

\* the rows in the order of .order(column, { ascending })
StoreOrder(rows, orderBy, ascending) ==
    [k \in DOMAIN rows |->
        rows[CHOOSE i \in DOMAIN rows : PlaceOf(rows, i, orderBy, ascending) = k]]

\* result.data of GET /api/captions?limit=10&offset=..&sort=.. for the page
PageResult(sortBy, offset) ==
    LET ordered == StoreOrder(WithContent(captions), OrderBy(sortBy), Ascending(sortBy))
        fetched == Range(ordered, offset, offset + PageLimit - 1)
    IN [captions |-> [i \in DOMAIN fetched |-> fetched[i].id],
        hasMore |-> (offset + PageLimit) < Len(WithContent(captions))]

\* useState([]), useState(true), useState('newest'), useState(false),
\* useState(true), and initialize() waiting for its loadCaptions(true).
\* reset is the request of initialize or of a sort change, more the one of
\* load-more; sorted tells that the list is the response of the last sort change
MountedPage ==
    [captions |-> <<>>, loading |-> TRUE, sortBy |-> "newest", loadingMore |-> FALSE,
     hasMore |-> TRUE,
     reset |-> Some([sort |-> "newest", initial |-> TRUE]), more |-> None,
     sorted |-> FALSE]

NoPage ==
    [captions |-> <<>>, loading |-> FALSE, sortBy |-> "newest", loadingMore |-> FALSE,
     hasMore |-> FALSE, reset |-> None, more |-> None, sorted |-> FALSE]

\* if (result.success) { setCaptions(...); setHasMore(...) }
Applied(p, delivery, list, result) ==
    IF delivery = "delivered"
    THEN [p EXCEPT !.captions = list, !.hasMore = result.hasMore]
    ELSE p

\* loadCaptions(true) of initialize returns, then setLoading(false)
InitialLoaded(delivery) ==
    /\ page.reset # None
    /\ page.reset[1].initial
    /\ LET result == PageResult(page.reset[1].sort, 0) IN
       page' = [Applied(page, delivery, result.captions, result)
                   EXCEPT !.loading = FALSE, !.reset = None]
    /\ UNCHANGED <<votes, req, submits, widget, captions, likes, upload, analytics, out>>

\* a click on a sort button (disabled while loading), up to the await on fetch
HandleSortChange(newSort) ==
    /\ ~page.loading
    /\ page' = [page EXCEPT !.sortBy = newSort, !.loading = TRUE,
                            !.reset = Some([sort |-> newSort, initial |-> FALSE]),
                            !.sorted = FALSE]
    /\ UNCHANGED <<votes, req, submits, widget, captions, likes, upload, analytics, out>>

\* handleSortChange from the response on
SortLoaded(delivery) ==
    /\ page.reset # None
    /\ ~page.reset[1].initial
    /\ LET result == PageResult(page.reset[1].sort, 0) IN
       page' = [Applied(page, delivery, result.captions, result)
                   EXCEPT !.loading = FALSE, !.reset = None,
                          !.sorted = (delivery = "delivered")]
    /\ UNCHANGED <<votes, req, submits, widget, captions, likes, upload, analytics, out>>

\* a click on the load-more button (rendered when the list is shown and
\* hasMore, disabled while loadingMore), up to the await on fetch of
\* loadCaptions(false): the request's offset and sort and the list to extend
\* are those of the render of the click
HandleLoadMore ==
    /\ ~page.loading
    /\ page.hasMore
    /\ ~page.loadingMore
    /\ page' = [page EXCEPT !.loadingMore = TRUE,
                            !.more = Some([sort |-> page.sortBy,
                                           offset |-> Len(page.captions),
                                           base |-> page.captions])]
    /\ UNCHANGED <<votes, req, submits, widget, captions, likes, upload, analytics, out>>

\* loadCaptions(false) returns, then setLoadingMore(false)
MoreLoaded(delivery) ==
    /\ page.more # None
    /\ LET m == page.more[1]
           result == PageResult(m.sort, m.offset)
       IN page' = [Applied(page, delivery, m.base \o result.captions, result)
                      EXCEPT !.loadingMore = FALSE, !.more = None]
    /\ UNCHANGED <<votes, req, submits, widget, captions, likes, upload, analytics, out>>

----------------------------------------------------------------------------
(* Specifications *)

NoWidget ==
    [captionId |-> "c1", user |-> "null", isLoggedIn |-> FALSE,
     voteCounts |-> [upvotes |-> 0, downvotes |-> 0, neutrals |-> 0],
     currentUserVote |-> None, isVoting |-> FALSE, voteValue |-> None, notice |-> "none",
     onVoteChange |-> 0]

NoOutput == [kind |-> "none"]

\* concurrent vote submissions, with store errors; the votes are on one caption
RacedCaption == "c1"

RacedBodies == {b \in Bodies : b.caption_id \in {RacedCaption, "undefined"}}

Init ==
    /\ votes = <<>>
    /\ req = [r \in Slots |-> IdleRequest]
    /\ submits = 0
    /\ widget = NoWidget
    /\ captions = <<>>
    /\ likes = <<>>
    /\ upload = NoUpload
    /\ page = NoPage
    /\ analytics = NoAnalytics
    /\ out = NoOutput

Next ==
    \/ \E r \in Slots, user \in Principals, body \in RacedBodies : PostBegin(r, user, body)
    \/ \E r \in Slots, outcome \in StoreOutcomes : PostLookup(r, outcome)
    \/ \E r \in Slots, outcome \in StoreOutcomes : PostWrite(r, outcome)

Spec == Init /\ [][Next]_vars

\* vote submissions processed one after another, with no store error:
\* valid requests of authenticated voters, each completed before the next starts
SeqSlot == "r1"

ValidBodies == {b \in Bodies : b.ok /\ ~MissingFields(b) /\ ValidVoteValue(b.vote_value)}

NextSeq ==
    \/ \E user \in Users, body \in ValidBodies : PostBegin(SeqSlot, user, body)
    \/ PostLookup(SeqSlot, "ok")
    \/ PostWrite(SeqSlot, "ok")

SpecSeq == Init /\ [][NextSeq]_vars

\* valid vote submissions processed one after another, with store errors
NextSeqErr ==
    \/ \E user \in Users, body \in ValidBodies : PostBegin(SeqSlot, user, body)
    \/ \E outcome \in StoreOutcomes : PostLookup(SeqSlot, outcome)
    \/ \E outcome \in StoreOutcomes : PostWrite(SeqSlot, outcome)

SpecSeqErr == Init /\ [][NextSeqErr]_vars

\* the read handlers, one request over a table of votes drawn from the
\* bounded tables: row i is the one vote of voter VoterName[i]
VoterName == <<"u1", "u2", "u3", "u4", "u5">>
CaptionName == <<"c1", "c2", "c3", "c4", "c5">>

VoteRowChoices == [caption_id : Captions, vote_value : VoteValues]

VoteTable(t) ==
    [i \in DOMAIN t |-> [id |-> i, caption_id |-> t[i].caption_id,
                         profile_id |-> VoterName[i], vote_value |-> t[i].vote_value]]

\* two captions with content, one for each caption id of the vote rows
TwoCaptions ==
    [i \in 1..2 |-> [id |-> CaptionName[i], content |-> Some("lol"),
                     like_count |-> Some(0), created_datetime_utc |-> i,
                     humor_flavor_id |-> None]]

InitAgg ==
    /\ \E k \in 0..MaxAggVotes : \E t \in [1..k -> VoteRowChoices] : votes = VoteTable(t)
    /\ req = [r \in Slots |-> IdleRequest]
    /\ submits = 0
    /\ widget = NoWidget
    /\ captions = TwoCaptions
    /\ likes = <<>>
    /\ upload = NoUpload
    /\ page = NoPage
    /\ analytics = NoAnalytics
    /\ out = NoOutput

\* one read request per behaviour: out holds its response
NextAgg ==
    \/ /\ out = NoOutput
       /\ \E c \in CaptionIdInputs, user \in Principals, o1, o2 \in StoreOutcomes :
             GetVote(c, user, o1, o2)
    \/ /\ out = NoOutput
       /\ \E user \in Principals, fault \in ListingFaults,
             ordered \in Rearrangements(WithContent(captions)) :
             ListCaptions("newest", 2, 0, user, fault, ordered, <<>>)
    \/ /\ out = NoOutput
       /\ \E o \in StoreOutcomes : AnalyticsLoad(o, "none")

SpecAgg == InitAgg /\ [][NextAgg]_vars

\* the listing, one request over a table of captions drawn from the bounded
\* tables; no votes
ContentChoices == {None, Some(""), Some("lol")}
LikeCountChoices == {0, 5}
CreatedChoices == {1, 2}

CaptionRowChoices ==
    [content : ContentChoices, like_count : LikeCountChoices,
     created_datetime_utc : CreatedChoices]

CaptionTable(t) ==
    [i \in DOMAIN t |-> [id |-> CaptionName[i], content |-> t[i].content,
                         like_count |-> Some(t[i].like_count),
                         created_datetime_utc |-> t[i].created_datetime_utc]]

InitList ==
    /\ votes = <<>>
    /\ req = [r \in Slots |-> IdleRequest]
    /\ submits = 0
    /\ widget = NoWidget
    /\ \E k \in 0..MaxCaps : \E t \in [1..k -> CaptionRowChoices] : captions = CaptionTable(t)
    /\ likes = <<>>
    /\ upload = NoUpload
    /\ page = NoPage
    /\ analytics = NoAnalytics
    /\ out = NoOutput

NextList ==
    /\ out = NoOutput
    /\ \E sortBy \in SortInputs, limit \in 1..MaxLimit, offset \in 0..MaxOffset,
          fault \in ListingFaults,
          ordered \in Rearrangements(WithContent(captions)) :
          \E js \in IF RandomOrder(sortBy)
                    THEN ShuffleChoices(Len(WithContent(captions))) ELSE {<<>>} :
              ListCaptions(sortBy, limit, offset, "null", fault, ordered, js)

SpecList == InitList /\ [][NextList]_vars

\* the random listing, one request over a table of captions created one
\* after the other, each with or without content; no votes, no store errors
MaxShuffle == 3

ShuffleTable(t) ==
    [i \in DOMAIN t |-> [id |-> CaptionName[i], content |-> t[i],
                         like_count |-> Some(0), created_datetime_utc |-> i]]

InitShuffle ==
    /\ votes = <<>>
    /\ req = [r \in Slots |-> IdleRequest]
    /\ submits = 0
    /\ widget = NoWidget
    /\ \E k \in 0..MaxShuffle : \E t \in [1..k -> {Some(""), Some("lol")}] :
          captions = ShuffleTable(t)
    /\ likes = <<>>
    /\ upload = NoUpload
    /\ page = NoPage
    /\ analytics = NoAnalytics
    /\ out = NoOutput

NextShuffle ==
    /\ out = NoOutput
    /\ \E limit \in 1..MaxShuffle, offset \in 0..MaxShuffle,
          ordered \in Rearrangements(WithContent(captions)),
          js \in ShuffleChoices(Len(WithContent(captions))) :
          ListCaptions("random", limit, offset, "null", "none", ordered, js)

SpecShuffle == InitShuffle /\ [][NextShuffle]_vars

\* the random listing over tables of about RandomFetchLimit captions created
\* one after the other, all with content but possibly the oldest; the shuffle
\* leaves the order, mirrors it, or always chooses j = 0
MaxOver == 1

NearLimit == (RandomFetchLimit - MaxOver)..(RandomFetchLimit + MaxOver)

LargeTable(n, oldestContent) ==
    [i \in 1..n |-> [id |-> "c" \o ToString(i),
                     content |-> IF i = 1 THEN oldestContent ELSE Some("lol"),
                     like_count |-> Some(0), created_datetime_utc |-> i]]

NewestFirst(rows) == [k \in 1..Len(rows) |-> rows[Len(rows) + 1 - k]]

LargeShuffleChoices(n) ==
    {[i \in 1..(n - 1) |-> i],
     [i \in 1..(n - 1) |-> IF 2 * i >= n THEN n - 1 - i ELSE i],
     [i \in 1..(n - 1) |-> 0]}

InitLarge ==
    /\ votes = <<>>
    /\ req = [r \in Slots |-> IdleRequest]
    /\ submits = 0
    /\ widget = NoWidget
    /\ \E n \in NearLimit, oldestContent \in {Some(""), Some("lol")} :
          captions = LargeTable(n, oldestContent)
    /\ likes = <<>>
    /\ upload = NoUpload
    /\ page = NoPage
    /\ analytics = NoAnalytics
    /\ out = NoOutput

NextLarge ==
    /\ out = NoOutput
    /\ \E limit \in 1..MaxLimit, offset \in {0} \cup NearLimit,
          js \in LargeShuffleChoices(Len(WithContent(captions))) :
          ListCaptions("random", limit, offset, "null", "none",
                       NewestFirst(WithContent(captions)), js)

SpecLarge == InitLarge /\ [][NextLarge]_vars

\* the analytics, one request over a table of captions and a table of like
\* records drawn from the bounded tables; no votes
MaxAnalyticsCaps == 3
MaxLikes == 3

AnalyticsLikeCounts == {None, Some(0), Some(1), Some(2)}
FlavorChoices == {None, Some("f1"), Some("f2")}

AnalyticsRowChoices == [like_count : AnalyticsLikeCounts, humor_flavor_id : FlavorChoices]

AnalyticsTable(t) ==
    [i \in DOMAIN t |-> [id |-> CaptionName[i], content |-> Some("lol"),
                         like_count |-> t[i].like_count, created_datetime_utc |-> i,
                         humor_flavor_id |-> t[i].humor_flavor_id]]

LikeTable(n) == [i \in 1..n |-> [id |-> i, caption_id |-> "c1", profile_id |-> VoterName[i]]]

InitAnalytics ==
    /\ votes = <<>>
    /\ req = [r \in Slots |-> IdleRequest]
    /\ submits = 0
    /\ widget = NoWidget
    /\ \E k \in 0..MaxAnalyticsCaps : \E t \in [1..k -> AnalyticsRowChoices] :
          captions = AnalyticsTable(t)
    /\ \E n \in 0..MaxLikes : likes = LikeTable(n)
    /\ upload = NoUpload
    /\ page = NoPage
    /\ analytics = NoAnalytics
    /\ out = NoOutput

NextAnalytics ==
    /\ out = NoOutput
    /\ \E fault \in AnalyticsFaults : AnalyticsLoad("ok", fault)

SpecAnalytics == InitAnalytics /\ [][NextAnalytics]_vars

\* one widget on caption c1, mounted from a listing of a table of votes drawn
\* from the bounded tables, and the server that serves its requests; no other
\* client votes
MaxWidgetVotes == 2

InitWidget ==
    /\ \E k \in 0..MaxWidgetVotes : \E t \in [1..k -> VoteRowChoices] : votes = VoteTable(t)
    /\ req = [r \in Slots |-> IdleRequest]
    /\ submits = 0
    /\ \E user \in Principals : widget = Mounted("c1", user)
    /\ captions = TwoCaptions
    /\ likes = <<>>
    /\ upload = NoUpload
    /\ page = NoPage
    /\ analytics = NoAnalytics
    /\ out = NoOutput

NextWidget ==
    \/ \E v \in ButtonValues, session \in {widget.user, "null"} : HandleVote(v, session)
    \/ \E delivery \in {"delivered", "thrown"} : HandleResponse(delivery)
    \/ \E outcome \in StoreOutcomes : PostLookup(WidgetSlot, outcome)
    \/ \E outcome \in StoreOutcomes : PostWrite(WidgetSlot, outcome)

SpecWidget == InitWidget /\ [][NextWidget]_vars

\* requests to the upload routes, each served to its response
NextProxy ==
    \E route \in ProxyRoutes, user \in Principals, body \in ProxyBodies,
       token \in BOOLEAN, upstream \in UpstreamOutcomes :
        ProxyCall(route, user, body, token, upstream)

SpecProxy == Init /\ [][NextProxy]_vars

\* the upload page of a user, or of a visitor without a session; every
\* response of a flow arrives (or its fetch throws) after a finite time
InitUpload ==
    /\ votes = <<>>
    /\ req = [r \in Slots |-> IdleRequest]
    /\ submits = 0
    /\ widget = NoWidget
    /\ captions = <<>>
    /\ likes = <<>>
    /\ \E user \in Principals : upload = [NoUpload EXCEPT !.user = user]
    /\ page = NoPage
    /\ analytics = NoAnalytics
    /\ out = NoOutput

UploadResponds ==
    \/ \E token \in BOOLEAN : UploadSession(token)
    \/ \E delivery \in Deliveries("presigned-url", upload.file) : UploadPresigned(delivery)
    \/ \E thrown \in BOOLEAN, status \in UpstreamStatuses : UploadPut(thrown, status)
    \/ \E delivery \in Deliveries("register-image", Forwarded) : UploadRegister(delivery)
    \/ \E delivery \in Deliveries("generate-captions", Forwarded) : UploadGenerate(delivery)

NextUpload ==
    \/ \E type \in FileTypeInputs : HandleFileSelect(type)
    \/ ResetUpload
    \/ UploadStart
    \/ UploadResponds

SpecUpload == InitUpload /\ [][NextUpload]_vars /\ WF_vars(UploadResponds)

\* the captions page over a table of captions with content whose creation
\* times and like counts all differ, so that each sort mode has one order
MaxPageCaptions == 12

PageTable(n) ==
    [i \in 1..n |-> [id |-> "c" \o ToString(i), content |-> Some("lol"),
                     like_count |-> Some(IF i % 2 = 0 THEN i ELSE n + i),
                     created_datetime_utc |-> i]]

InitPage ==
    /\ votes = <<>>
    /\ req = [r \in Slots |-> IdleRequest]
    /\ submits = 0
    /\ widget = NoWidget
    /\ \E n \in 0..MaxPageCaptions : captions = PageTable(n)
    /\ likes = <<>>
    /\ upload = NoUpload
    /\ page = MountedPage
    /\ analytics = NoAnalytics
    /\ out = NoOutput

NextPage ==
    \/ \E delivery \in PageDeliveries : InitialLoaded(delivery)
    \/ \E newSort \in PageSorts : HandleSortChange(newSort)
    \/ \E delivery \in PageDeliveries : SortLoaded(delivery)
    \/ HandleLoadMore
    \/ \E delivery \in PageDeliveries : MoreLoaded(delivery)

SpecPage == InitPage /\ [][NextPage]_vars

\* analytics requests served while valid votes are submitted one after
\* another; no store call fails
NextAnalyticsRace ==
    \/ \E user \in Users, body \in ValidBodies : PostBegin(SeqSlot, user, body)
    \/ PostLookup(SeqSlot, "ok")
    \/ PostWrite(SeqSlot, "ok")
    \/ AnalyticsCounts("none")
    \/ AnalyticsRest("ok")

SpecAnalyticsRace == Init /\ [][NextAnalyticsRace]_vars

\* one widget of a logged-in voter on caption c1 and a second session of the
\* same voter that votes on the same caption; no store call fails
OtherSlot == "r2"

OtherBodies == {b \in ValidBodies : b.caption_id = "c1"}

InitWidgetRace ==
    /\ \E k \in 0..MaxWidgetVotes : \E t \in [1..k -> VoteRowChoices] : votes = VoteTable(t)
    /\ req = [r \in Slots |-> IdleRequest]
    /\ submits = 0
    /\ \E user \in Users : widget = Mounted("c1", user)
    /\ captions = TwoCaptions
    /\ likes = <<>>
    /\ upload = NoUpload
    /\ page = NoPage
    /\ analytics = NoAnalytics
    /\ out = NoOutput

NextWidgetRace ==
    \/ \E v \in ButtonValues : HandleVote(v, widget.user)
    \/ \E delivery \in {"delivered", "thrown"} : HandleResponse(delivery)
    \/ PostLookup(WidgetSlot, "ok")
    \/ PostWrite(WidgetSlot, "ok")
    \/ \E body \in OtherBodies : PostBegin(OtherSlot, widget.user, body)
    \/ PostLookup(OtherSlot, "ok")
    \/ PostWrite(OtherSlot, "ok")

SpecWidgetRace == InitWidgetRace /\ [][NextWidgetRace]_vars

\* valid vote submissions processed one after another with no store error,
\* from any table of votes, tables with several rows of one pair included
MaxStoreVotes == 2

StoreRowChoices == [caption_id : Captions, profile_id : Users, vote_value : ButtonValues]

StoreTable(t) ==
    [i \in DOMAIN t |-> [id |-> i, caption_id |-> t[i].caption_id,
                         profile_id |-> t[i].profile_id, vote_value |-> t[i].vote_value]]

InitStore ==
    /\ \E k \in 0..MaxStoreVotes : \E t \in [1..k -> StoreRowChoices] : votes = StoreTable(t)
    /\ req = [r \in Slots |-> IdleRequest]
    /\ submits = 0
    /\ widget = NoWidget
    /\ captions = <<>>
    /\ likes = <<>>
    /\ upload = NoUpload
    /\ page = NoPage
    /\ analytics = NoAnalytics
    /\ out = NoOutput

SpecStore == InitStore /\ [][NextSeq]_vars

----------------------------------------------------------------------------
(* Claims about POST /api/vote *)

\* the rows of caption_votes of a (caption, voter) pair
RowsOf(c, u) == {i \in DOMAIN votes : votes[i].caption_id = c /\ votes[i].profile_id = u}

\* C1: after each request of a sequence of valid submissions processed one
\* after another with no store error, starting from an empty table, exactly
\* one vote row exists for the request's (caption, voter) pair and its value
\* is the value that request submitted; no pair ever has two rows.
C1_LastVoteStoredOnce ==
    /\ req[SeqSlot].pc = "done" =>
          LET rows == RowsOf(req[SeqSlot].body.caption_id, req[SeqSlot].user) IN
          /\ Cardinality(rows) = 1
          /\ \A i \in rows : Some(votes[i].vote_value) = req[SeqSlot].body.vote_value
    /\ \A c \in Captions, u \in Users : Cardinality(RowsOf(c, u)) <= 1

\* a third submission for a pair is done: the row holds its value
C1_Witness ==
    /\ submits = 3
    /\ req[SeqSlot].pc = "done"
    /\ req[SeqSlot].resp.action = "updated"
    /\ req[SeqSlot].resp.previous_vote # req[SeqSlot].body.vote_value
    /\ Len(votes) = 1

\* a request takes its write step and answers success
Answers(r) == req[r].pc = "write" /\ req'[r].pc = "done" /\ req'[r].resp.success

\* C2: the create path is not guarded: a request that observed no existing
\* vote and whose insert the store accepts adds a row for its (caption, voter)
\* pair and answers 'created', whatever rows the pair has by then; two
\* interleaved requests of one voter so leave two rows for the pair.
C2_CreatePathUnguarded ==
    [][\A r \in Slots :
         (Answers(r) /\ req[r].existingVote = None) =>
             /\ Len(votes') = Len(votes) + 1
             /\ votes'[Len(votes')].caption_id = req[r].body.caption_id
             /\ votes'[Len(votes')].profile_id = req[r].user
             /\ req'[r].resp.action = "created"]_vars

\* both requests of voter u1 looked up before either inserted: two rows
C2_Witness ==
    /\ Len(votes) = 2
    /\ Cardinality(RowsOf(RacedCaption, "u1")) = 2
    /\ \A r \in Slots :
         /\ req[r].pc = "done"
         /\ req[r].user = "u1"
         /\ ~req[r].lookupError
         /\ req[r].resp.action = "created"

\* C3: a successful submission answers 'created' with the new row and no
\* previous_vote when the pair has no row, and otherwise answers 'updated',
\* overwrites the row's value and reports as previous_vote the value the row
\* held immediately before the overwrite.
C3_ActionAndPreviousVote ==
    [][\A r \in Slots :
         Answers(r) =>
             LET rows == RowsOf(req[r].body.caption_id, req[r].user)
                 resp == req'[r].resp
             IN IF rows = {}
                THEN /\ resp.action = "created"
                     /\ resp.previous_vote = None
                     /\ Len(votes') = Len(votes) + 1
                     /\ resp.vote = Some(votes'[Len(votes')])
                ELSE /\ resp.action = "updated"
                     /\ Len(votes') = Len(votes)
                     /\ \E i \in rows :
                          /\ Some(votes'[i].vote_value) = req[r].body.vote_value
                          /\ resp.previous_vote = Some(votes[i].vote_value)
                          /\ resp.vote = Some(votes'[i])]_vars

\* a request whose response is a rejection
Rejected(q) == q.pc = "done" /\ q.resp.status \in {400, 401}

\* C4: a request with no authenticated principal is answered 401, whatever
\* its body; an authenticated request whose body lacks caption_id or
\* vote_value, or whose vote_value is not -1, 0 or 1, is answered 400; a
\* rejected request leaves the table as it is, and every stored value is in
\* {-1, 0, 1}.
C4_RejectsInvalid ==
    /\ [](/\ \A r \in Slots :
               req[r].pc # "idle" =>
                 /\ req[r].user = "null" => (req[r].pc = "done" /\ req[r].resp.status = 401)
                 /\ (/\ req[r].user # "null"
                     /\ req[r].body.ok
                     /\ \/ req[r].body.caption_id = "undefined"
                        \/ req[r].body.vote_value \notin {Some(-1), Some(0), Some(1)})
                    => (req[r].pc = "done" /\ req[r].resp.status = 400)
                 /\ Rejected(req[r]) => ~req[r].resp.success
          /\ \A i \in DOMAIN votes : votes[i].vote_value \in {-1, 0, 1})
    /\ [][\A r \in Slots :
            (req'[r] # req[r] /\ Rejected(req'[r])) => votes' = votes]_vars

\* an unauthenticated request with an invalid body was answered 401
C4_Witness ==
    \E r \in Slots :
        /\ req[r].pc = "done"
        /\ req[r].user = "null"
        /\ req[r].body.vote_value = Some(2)
        /\ req[r].resp.status = 401
        /\ \E s \in Slots :
             /\ req[s].pc = "done"
             /\ req[s].user # "null"
             /\ req[s].body.vote_value = Some(2)
             /\ req[s].body.caption_id # "undefined"
             /\ req[s].resp.status = 400
             /\ Len(votes) = 1

\* C5: a request during which a store call failed is answered with a
\* failure response of status 500.
C5_StoreErrorSurfaced ==
    \A r \in Slots :
        (req[r].pc = "done" /\ req[r].lookupError) =>
            (req[r].resp.status = 500 /\ ~req[r].resp.success)

----------------------------------------------------------------------------
(* Claims about the aggregation *)

\* the rows (indexes) of caption_votes of a caption, and all rows
VotesOn(c) == {i \in DOMAIN votes : votes[i].caption_id = c}
AllVotes == DOMAIN votes

\* the number of rows among I of each sign
BucketsOf(I) ==
    [upvotes |-> Cardinality({i \in I : votes[i].vote_value > 0}),
     downvotes |-> Cardinality({i \in I : votes[i].vote_value < 0}),
     neutrals |-> Cardinality({i \in I : votes[i].vote_value = 0})]

\* C6: the caption listing, GET /api/vote and the analytics breakdown each
\* report upvotes = the number of rows (of the caption; of the table for the
\* analytics) with value > 0, downvotes = the number with value < 0 and
\* neutrals = the number with value = 0.
C6_BucketsBySign ==
    /\ (out.kind = "vote" /\ out.success /\ out.request.votesOutcome = "ok") =>
          out.vote_counts = BucketsOf(VotesOn(out.caption_id))
    /\ (out.kind = "captions" /\ out.success /\ out.request.fault # "votes") =>
          \A i \in DOMAIN out.captions :
              out.captions[i].vote_counts = BucketsOf(VotesOn(out.captions[i].id))
    /\ (out.kind = "analytics" /\ out.request.votesOutcome = "ok") =>
          out.voteStats = BucketsOf(AllVotes)

\* the listing reports 2, 1, 1 for a caption whose votes are +1, +1, -1, 0
C6_Witness ==
    /\ [i \in DOMAIN votes |-> votes[i].vote_value] = <<1, 1, -1, 0>>
    /\ \A i \in DOMAIN votes : votes[i].caption_id = "c1"
    /\ out.kind = "captions"
    /\ \E i \in DOMAIN out.captions :
          /\ out.captions[i].id = "c1"
          /\ out.captions[i].vote_counts = [upvotes |-> 2, downvotes |-> 1, neutrals |-> 1]
          /\ out.captions[i].total_votes = 4

\* counts and total of caption c are sound
SoundCounts(counts, total, c) ==
    /\ counts.upvotes >= 0 /\ counts.downvotes >= 0 /\ counts.neutrals >= 0
    /\ counts.upvotes + counts.downvotes + counts.neutrals = Cardinality(VotesOn(c))
    /\ total = Cardinality(VotesOn(c))
    /\ VotesOn(c) = {} =>
          (counts = [upvotes |-> 0, downvotes |-> 0, neutrals |-> 0] /\ total = 0)

\* C7: upvotes + downvotes + neutrals of a caption is the number of its vote
\* rows and is what total_votes reports, no bucket is negative, and a caption
\* with no vote row has all-zero counts and total 0.
C7_BucketsSumToTotal ==
    /\ (out.kind = "vote" /\ out.success /\ out.request.votesOutcome = "ok") =>
          SoundCounts(out.vote_counts, out.total_votes, out.caption_id)
    /\ (out.kind = "captions" /\ out.success /\ out.request.fault # "votes") =>
          \A i \in DOMAIN out.captions :
              SoundCounts(out.captions[i].vote_counts, out.captions[i].total_votes,
                          out.captions[i].id)

\* GET /api/vote answered for a caption without votes while another has some
C7_Witness ==
    /\ Len(votes) = 3
    /\ \A i \in DOMAIN votes : votes[i].caption_id = "c1"
    /\ out.kind = "vote" /\ out.success /\ out.request.votesOutcome = "ok"
    /\ out.caption_id = "c2"
    /\ out.vote_counts = [upvotes |-> 0, downvotes |-> 0, neutrals |-> 0]
    /\ out.total_votes = 0

\* C8: no upvote ratio is the result of a division by zero: the widget's
\* '% up', the analytics page's upvote rate and the analytics route's
\* upvote-ratio insight are each a number, or omitted.
C8_NoDivisionByZero ==
    /\ out.kind = "captions" =>
          \A i \in DOMAIN out.captions :
              WidgetPercentUp(out.captions[i].vote_counts).kind \in {"number", "omitted"}
    /\ out.kind = "analytics" =>
          /\ out.pageUpvoteRate.kind = "number"
          /\ out.insightUpvoteRatio.kind = "number"

\* C20: GET /api/vote without caption_id is answered 400; for a caption it
\* returns the caption's aggregate counts and user_vote = the caller's stored
\* value v, for v = -1, 0 and 1, when the caller is authenticated and has a
\* vote row for the caption, and user_vote = null otherwise.
C20_GetVoteUserVote ==
    /\ (out.kind = "vote" /\ out.request.caption_id = "undefined") =>
          (out.status = 400 /\ ~out.success)
    /\ (out.kind = "vote" /\ out.success /\ out.request.votesOutcome = "ok"
          /\ out.request.userVoteOutcome = "ok") =>
          LET mine == RowsOf(out.caption_id, out.request.user) IN
          /\ out.vote_counts = BucketsOf(VotesOn(out.caption_id))
          /\ out.user_vote = IF out.request.user # "null" /\ mine # {}
                             THEN Some(votes[CHOOSE i \in mine : TRUE].vote_value)
                             ELSE None

----------------------------------------------------------------------------
(* Claims about the listing *)

\* the captions table's rows with a non-null, non-empty content
ContentRows == {i \in DOMAIN captions :
                   captions[i].content # None /\ captions[i].content # Some("")}

\* the key the claim states for a sort value, and whether larger comes first
StatedKey(sortBy, row) ==
    IF sortBy = "most_liked" THEN row.like_count[1] ELSE row.created_datetime_utc
StatedDescending(sortBy) == sortBy # "oldest"

\* row a comes strictly before row b in the stated order
Before(sortBy, a, b) ==
    IF StatedDescending(sortBy)
    THEN StatedKey(sortBy, a) > StatedKey(sortBy, b)
    ELSE StatedKey(sortBy, a) < StatedKey(sortBy, b)

C11_PaginationMetadata ==
    (out.kind = "captions" /\ out.success) =>
        LET p == out.pagination IN
        /\ p.limit = out.request.limit
        /\ p.offset = out.request.offset
        /\ p.hasMore = ((p.offset + p.limit) < p.total)
        /\ p.offset >= p.total => (out.captions = <<>> /\ ~p.hasMore)

\* a store call of the listing request that produced out was made and failed
ListingFaultOccurred ==
    /\ out.kind = "captions"
    /\ \/ out.request.fault \in {"captions", "votes"}
       \/ /\ out.request.fault = "userVotes"
          /\ out.request.user # "null"
          /\ out.success
          /\ IF out.request.sort = "random" THEN out.pagination.total > 0
             ELSE out.captions # <<>>
       \/ out.request.fault = "count" /\ out.request.sort # "random"

\* C15: a listing request during which a store query fails (the captions
\* query, the vote-records query, the requester's votes query or the count
\* query) is answered with the failure response, status 500, success false.
C15_ListingErrorsPropagate ==
    ListingFaultOccurred => (out.status = 500 /\ ~out.success)

\* the ids of a sequence of captions
Ids(rows) == [i \in DOMAIN rows |-> rows[i].id]

\* the ids of the captions with content, newest first, when no two captions
\* were created at the same time
NewestFirstIds ==
    LET I == ContentRows
        Rank(i) == 1 + Cardinality({j \in I : captions[j].created_datetime_utc
                                                > captions[i].created_datetime_utc})
    IN [k \in 1..Cardinality(I) |-> captions[CHOOSE i \in I : Rank(i) = k].id]

\* how many times x occurs in sequence a
Occurrences(a, x) == Cardinality({i \in DOMAIN a : a[i] = x})

\* C12: the shuffle of the random mode is Fisher-Yates.  For the fetched
\* superset, every sequence of choices of j (j in [0, i] for i from the last
\* index down to 1) yields a sequence with the same elements, none lost or
\* duplicated; every permutation of the superset is the outcome of exactly
\* one sequence of choices; and the returned page is positions
\* [offset, offset + limit) of the sequence shuffled with the request's
\* choices.
C12_FisherYates ==
    (out.kind = "captions" /\ out.success /\ out.request.sort = "random") =>
        LET F == NewestFirstIds
            n == Len(F)
            offset == out.request.offset
            limit == out.request.limit
            S == Shuffle(F, out.request.js)
            size == IF offset >= n THEN 0 ELSE Min(limit, n - offset)
        IN /\ \A js \in ShuffleChoices(n) :
                 /\ Len(Shuffle(F, js)) = n
                 /\ \A i \in 1..n : Occurrences(Shuffle(F, js), F[i]) = 1
           /\ \A p \in Rearrangements(F) :
                 Cardinality({js \in ShuffleChoices(n) : Shuffle(F, js) = p}) = 1
           /\ Ids(out.captions) = [k \in 1..size |-> S[offset + k]]

\* three captions with content fetched as c3, c2, c1; the choices j = 0 for
\* i = 2 and j = 0 for i = 1 give c2, c1, c3, of which positions 1..2 are
\* returned
C12_Witness ==
    /\ out.kind = "captions" /\ out.success /\ out.request.sort = "random"
    /\ NewestFirstIds = <<"c3", "c2", "c1">>
    /\ out.request.js = <<0, 0>>
    /\ out.request.offset = 1 /\ out.request.limit = 2
    /\ Ids(out.captions) = <<"c1", "c3">>

\* C13: in random mode the fetched superset is the newest captions with
\* non-empty content, at most 1000 of them; pagination.total is the size of
\* that superset (not the number of captions of the table), hasMore is
\* computed against it, and every returned caption is of the superset.
C13_RandomSupersetCapped ==
    (out.kind = "captions" /\ out.success /\ out.request.sort = "random") =>
        LET p == out.pagination
            withContent == Cardinality(ContentRows)
            Row(id) == CHOOSE i \in DOMAIN captions : captions[i].id = id
            Newer(i) == {j \in ContentRows : captions[j].created_datetime_utc
                                              > captions[i].created_datetime_utc}
        IN /\ p.total <= 1000
           /\ p.total = IF withContent <= 1000 THEN withContent ELSE 1000
           /\ p.hasMore = ((out.request.offset + out.request.limit) < p.total)
           /\ \A k \in DOMAIN out.captions :
                 /\ Row(out.captions[k].id) \in ContentRows
                 /\ Cardinality(Newer(Row(out.captions[k].id))) < 1000

\* 1001 captions with content: total is 1000, and the page at offset 999 with
\* limit 2 holds the one remaining caption of the superset
C13_Witness ==
    /\ out.kind = "captions" /\ out.success /\ out.request.sort = "random"
    /\ Len(captions) = 1001
    /\ Cardinality(ContentRows) = 1001
    /\ out.pagination.total = 1000
    /\ out.request.offset = 999 /\ out.request.limit = 2
    /\ Len(out.captions) = 1
    /\ ~out.pagination.hasMore

\* C14: every caption of a listing response carries vote_counts computed
\* from all vote rows of the caption, total_votes = upvotes + downvotes +
\* neutrals, and user_vote = the requester's stored value for the caption (0
\* included) when the requester is authenticated and has voted on it, null
\* otherwise.
C14_ListingVoteData ==
    (out.kind = "captions" /\ out.success) =>
        \A k \in DOMAIN out.captions :
            LET c == out.captions[k]
                mine == RowsOf(c.id, out.request.user)
            IN /\ c.vote_counts = BucketsOf(VotesOn(c.id))
               /\ c.total_votes = c.vote_counts.upvotes + c.vote_counts.downvotes
                                    + c.vote_counts.neutrals
               /\ c.user_vote = IF out.request.user # "null" /\ mine # {}
                                THEN Some(votes[CHOOSE i \in mine : TRUE].vote_value)
                                ELSE None

----------------------------------------------------------------------------
(* Claims about the widget *)

\* the widget has just applied a successful submission
JustSucceeded ==
    /\ ~widget.isVoting
    /\ widget.notice = "none"
    /\ req[WidgetSlot].pc = "done"
    /\ req[WidgetSlot].resp.success

\* C9: after each successful submission through the widget, with no other
\* client voting, the widget's counts are the counts the aggregator computes
\* from the stored rows of the caption, and its currentUserVote is the stored
\* value of the voter's vote on the caption.
C9_WidgetMatchesServer ==
    JustSucceeded =>
        /\ widget.voteCounts = BucketsOf(VotesOn(widget.captionId))
        /\ widget.voteCounts = ListingVoteCounts(votes, widget.captionId)
        /\ RowsOf(widget.captionId, widget.user) # {}
        /\ \A i \in RowsOf(widget.captionId, widget.user) :
              Some(votes[i].vote_value) = widget.currentUserVote

----------------------------------------------------------------------------
(* Claims about the analytics *)

\* the captions of the table with a like count above 0
LikedCaptions == {i \in DOMAIN captions :
                     captions[i].like_count # None /\ captions[i].like_count[1] > 0}

\* the sum of the like counts of the captions I, a missing like count as 0
RECURSIVE LikeSum(_)
LikeSum(I) ==
    IF I = {} THEN 0
    ELSE LET i == CHOOSE i \in I : TRUE IN
         (IF captions[i].like_count = None THEN 0 ELSE captions[i].like_count[1])
           + LikeSum(I \ {i})

\* C16: the like-rate of an analytics response is (number of captions with at
\* least one like) / (number of captions) as a percentage, whatever the
\* number of like records.
C16_LikeRate ==
    (out.kind = "analytics" /\ out.request.fault = "none" /\ Len(captions) > 0) =>
        LET rate == out.engagementMetrics.likeRate IN
        /\ rate.den > 0
        /\ rate.num * Len(captions) = 100 * Cardinality(LikedCaptions) * rate.den

\* C17: when the captions table is empty the like-rate of an analytics
\* response is 0, whatever the other tables hold.
C17_LikeRateZeroWithoutCaptions ==
    (out.kind = "analytics" /\ out.request.fault = "none" /\ Len(captions) = 0) =>
        LET rate == out.engagementMetrics.likeRate IN
        rate.den > 0 /\ rate.num = 0

\* C18: captionsWithLikes is the number of captions with like count > 0;
\* avgLikesPerCaption is the sum of their like counts divided by their
\* number, 0 when there are none; maxLikes is the largest like count, 0 when
\* no caption has likes.
C18_EngagementMetrics ==
    (out.kind = "analytics" /\ out.request.fault # "engagement") =>
        LET m == out.engagementMetrics
            n == Cardinality(LikedCaptions)
        IN /\ m.captionsWithLikes = n
           /\ m.avgLikesPerCaption.den > 0
           /\ IF n = 0
              THEN m.avgLikesPerCaption.num = 0 /\ m.maxLikes = 0
              ELSE /\ m.avgLikesPerCaption.num * n
                        = LikeSum(LikedCaptions) * m.avgLikesPerCaption.den
                   /\ \E i \in LikedCaptions : captions[i].like_count[1] = m.maxLikes
                   /\ \A i \in LikedCaptions : captions[i].like_count[1] <= m.maxLikes

\* like counts 0, 1, 2: two captions with likes, 1.5 likes on average, at
\* most 2
C18_Witness ==
    /\ out.kind = "analytics" /\ out.request.fault = "none"
    /\ [i \in DOMAIN captions |-> captions[i].like_count] = <<Some(0), Some(1), Some(2)>>
    /\ out.engagementMetrics.captionsWithLikes = 2
    /\ out.engagementMetrics.avgLikesPerCaption = [num |-> 3, den |-> 2]
    /\ out.engagementMetrics.maxLikes = 2

\* the captions that reference humor style f
StyledAs(f) == {i \in DOMAIN captions : captions[i].humor_flavor_id = Some(f)}

\* C19: the per-style statistics hold one entry for each style referenced by
\* a caption, with captionCount = the number of captions referencing it,
\* totalLikes = the sum of their like counts (a missing one as 0) and avgLikes
\* = totalLikes / captionCount; the captionCounts sum to the number of
\* captions that reference a style; the list is ordered by avgLikes
\* descending.
C19_FlavorStats ==
    (out.kind = "analytics" /\ out.request.fault # "flavors") =>
        LET stats == out.humorFlavorStats
            styled == {i \in DOMAIN captions : captions[i].humor_flavor_id # None}
            Upto(k) == {i \in styled : \E m \in 1..k : captions[i].humor_flavor_id
                                                         = Some(stats[m].id)}
        IN /\ {stats[k].id : k \in DOMAIN stats}
                 = {captions[i].humor_flavor_id[1] : i \in styled}
           /\ \A k, m \in DOMAIN stats : stats[k].id = stats[m].id => k = m
           /\ \A k \in DOMAIN stats :
                 /\ stats[k].captionCount = Cardinality(StyledAs(stats[k].id))
                 /\ stats[k].totalLikes = LikeSum(StyledAs(stats[k].id))
                 /\ stats[k].avgLikes.den > 0
                 /\ stats[k].avgLikes.num * stats[k].captionCount
                       = stats[k].totalLikes * stats[k].avgLikes.den
           /\ Cardinality(Upto(Len(stats))) = Cardinality(styled)
           /\ \A k \in DOMAIN stats :
                 Cardinality(Upto(k)) - Cardinality(Upto(k - 1)) = stats[k].captionCount
           /\ \A k, m \in DOMAIN stats :
                 k < m => stats[k].avgLikes.num * stats[m].avgLikes.den
                            >= stats[m].avgLikes.num * stats[k].avgLikes.den

\* style f1 on a caption with 1 like and on one without a like count, style
\* f2 on a caption with 2 likes: f2 (average 2) comes before f1 (average 1/2)
C19_Witness ==
    /\ out.kind = "analytics" /\ out.request.fault = "none"
    /\ [i \in DOMAIN captions |-> captions[i].humor_flavor_id]
          = <<Some("f1"), Some("f2"), Some("f1")>>
    /\ [i \in DOMAIN captions |-> captions[i].like_count] = <<Some(1), Some(2), None>>
    /\ out.humorFlavorStats
          = <<[id |-> "f2", captionCount |-> 1, totalLikes |-> 2,
               avgLikes |-> [num |-> 2, den |-> 1]],
              [id |-> "f1", captionCount |-> 2, totalLikes |-> 1,
               avgLikes |-> [num |-> 1, den |-> 2]]>>

----------------------------------------------------------------------------
(* Claims about the error responses *)

\* the request passed the route's own checks and was forwarded
ReachedUpstream(q) ==
    /\ q.user # "null"
    /\ q.body.ok
    /\ q.body.field # None
    /\ q.route = "presigned-url" => q.body.field[1] \in AllowedTypes
    /\ q.token

\* C21: every failure response of an upload route has status 401, 400 or
\* 500: 401 when the caller is not authenticated, and 500 when the request
\* was forwarded and the captioning API failed, a non-success status of the
\* API included.
C21_FailureStatus ==
    (out.kind = "proxy" /\ out.response.success = Some(FALSE)) =>
        /\ out.response.status \in {401, 400, 500}
        /\ out.request.user = "null" => out.response.status = 401
        /\ ReachedUpstream(out.request) => out.response.status = 500

----------------------------------------------------------------------------
(* Claims about the vote records *)

\* the step is the write of request r
Writes(r) == req[r].pc = "write" /\ req'[r].pc = "done"

\* C22: no step removes a vote row or changes the id, caption or voter of
\* one, so the number of rows never decreases and a pair that has a row keeps
\* having one; and the write of a submission for a pair that has a row
\* changes the row in place: the number of rows stays the same.
C22_VoteLifecycle ==
    [][/\ Len(votes') >= Len(votes)
       /\ \A i \in DOMAIN votes :
             /\ votes'[i].id = votes[i].id
             /\ votes'[i].caption_id = votes[i].caption_id
             /\ votes'[i].profile_id = votes[i].profile_id
       /\ \A r \in Slots :
             (Writes(r) /\ RowsOf(req[r].body.caption_id, req[r].user) # {})
                => Len(votes') = Len(votes)]_vars

\* C24: whatever the table holds, a valid submission for a pair that has at
\* least one row leaves the number of rows of the pair as it is, and one for a
\* pair with no row adds exactly one row.
C24_InsertsOnlyForNewPair ==
    [][\A r \in Slots : (Writes(r) /\ req'[r].resp.success) =>
          LET had == Cardinality(RowsOf(req[r].body.caption_id, req[r].user))
              has == Cardinality({i \in DOMAIN votes' :
                        /\ votes'[i].caption_id = req[r].body.caption_id
                        /\ votes'[i].profile_id = req[r].user})
          IN has = IF had = 0 THEN 1 ELSE had]_vars

----------------------------------------------------------------------------
(* Claims about the upload page *)

IsPrefix(s, t) == Len(s) <= Len(t) /\ \A i \in DOMAIN s : s[i] = t[i]

\* a returned status is a success status
Succeeded(status) == status \in 200..299

FlowRuns == upload.step \in {"uploading", "generating"}

\* C23: the calls of a flow are a prefix of presigned-url, put,
\* register-image, generate-captions, each issued after the one before it
\* returned a success status; a call that fails is the flow's last and its
\* return sets step 'error' with progress 0; the return of the fourth call
\* with success sets step 'complete' with progress 100; the progress does not
\* decrease while the step is 'uploading' or 'generating'; and every flow
\* that runs ends in 'complete' or 'error'.
C23_UploadFlow ==
    /\ [](/\ IsPrefix(upload.calls, UploadCalls)
          /\ Len(upload.results) <= Len(upload.calls)
          /\ Len(upload.calls) <= Len(upload.results) + 1
          /\ \A i \in DOMAIN upload.results :
                ~Succeeded(upload.results[i]) =>
                    i = Len(upload.calls) /\ ~FlowRuns /\ upload.pc = "idle"
          /\ upload.step = "error" => upload.progress = 0
          /\ upload.step = "complete" =>
                /\ upload.progress = 100
                /\ upload.calls = UploadCalls
                /\ Len(upload.results) = Len(UploadCalls)
          /\ upload.pc # "idle" <=> FlowRuns)
    /\ [][/\ (FlowRuns /\ upload'.step \in {"uploading", "generating"})
                => upload'.progress >= upload.progress
          /\ (FlowRuns /\ Len(upload'.results) > Len(upload.results)) =>
                LET status == upload'.results[Len(upload'.results)] IN
                IF ~Succeeded(status)
                THEN upload'.step = "error" /\ upload'.progress = 0
                ELSE IF Len(upload'.results) = Len(UploadCalls)
                THEN upload'.step = "complete" /\ upload'.progress = 100
                ELSE upload'.step \in {"uploading", "generating"}]_vars
    /\ (FlowRuns ~> upload.step \in {"complete", "error"})

\* a second flow has completed with its four calls
C23_Witness ==
    /\ upload.flows = MaxFlows
    /\ upload.step = "complete"
    /\ upload.calls = UploadCalls

----------------------------------------------------------------------------
(* Claims about the captions page *)

\* the ids of the captions with content in the server's order for a sort mode
ServerIds(sortBy) ==
    LET ordered == StoreOrder(WithContent(captions), OrderBy(sortBy), Ascending(sortBy))
    IN [i \in DOMAIN ordered |-> ordered[i].id]

\* C28: from the moment the response of a sort change is applied until the
\* next sort change, the displayed list is the beginning of the server's list
\* for the selected sort mode, whatever load-more responses arrive; and a
\* load-more request is outstanding exactly while loadingMore is set.
C28_ListOfSelectedSort ==
    /\ page.sorted => IsPrefix(page.captions, ServerIds(page.sortBy))
    /\ page.loadingMore <=> page.more # None

----------------------------------------------------------------------------
(* Claims about analytics served while votes are submitted *)

\* C29: in every analytics response the three buckets of voteStats add up to
\* basicStats.totalVotes, also when a vote is stored between the handler's
\* count read and its breakdown read.
C29_BreakdownSumsToTotal ==
    out.kind = "analytics" =>
        out.voteStats.upvotes + out.voteStats.downvotes + out.voteStats.neutrals
            = out.totalVotes

----------------------------------------------------------------------------
(* Claims about the widget's submissions *)

\* the widget is about to handle a success response
SuccessArrived ==
    widget.isVoting /\ req[WidgetSlot].pc = "done" /\ req[WidgetSlot].resp.success

\* C25: when a success response reaches the widget, the widget's
\* currentUserVote, whose bucket it decrements, is the previous_vote of the
\* response: null exactly when the action is 'created'; also when the same
\* voter votes on the caption from a second session in between.
C25_LocalPreviousVote ==
    SuccessArrived =>
        /\ widget.currentUserVote = req[WidgetSlot].resp.previous_vote
        /\ widget.currentUserVote = None <=> req[WidgetSlot].resp.action = "created"

\* C26: a request is sent only when no submission of the widget is in
\* flight, and sending sets isVoting; while one is in flight and its response
\* has not arrived nothing of the widget changes; and the handling of every
\* outcome sets isVoting to false.
C26_OneSubmissionInFlight ==
    /\ [](~widget.isVoting => req[WidgetSlot].pc \in {"idle", "done"})
    /\ [][/\ submits' # submits => ~widget.isVoting /\ widget'.isVoting
          /\ (widget.isVoting /\ req[WidgetSlot].pc # "done") => widget' = widget
          /\ (widget.isVoting /\ widget' # widget) => ~widget'.isVoting]_vars

\* after the outcome of one submission the widget has sent another
C26_Witness ==
    /\ submits = 2
    /\ widget.isVoting
    /\ req[WidgetSlot].pc = "lookup"

\* C27: a widget of a visitor who is not logged in sends no request; and
\* voteCounts, currentUserVote and the count of onVoteChange calls change only
\* in the handling of a success response, which raises no alert: the alerts
\* for a visitor, a {success: false} response and a thrown request leave them
\* as they are.
C27_FailureLeavesWidget ==
    /\ [](~widget.isLoggedIn => submits = 0 /\ req[WidgetSlot].pc = "idle")
    /\ [][(\/ widget'.voteCounts # widget.voteCounts
           \/ widget'.currentUserVote # widget.currentUserVote
           \/ widget'.onVoteChange # widget.onVoteChange)
            => /\ widget.isLoggedIn
               /\ SuccessArrived
               /\ widget'.notice = "none"
               /\ widget'.onVoteChange = widget.onVoteChange + 1]_vars

\* the request threw at the client after the server had stored the vote: the
\* widget shows the alert and nothing of it has changed
C27_Witness ==
    /\ widget.notice = "Failed to submit vote. Please try again."
    /\ req[WidgetSlot].resp.success
    /\ widget.onVoteChange = 0
    /\ ~widget.isVoting

====
